---- MODULE Spec2Model ----
(***************************************************************************)
(* Model of the bounded-concurrency task runner "Parallel" of              *)
(* mongo-stress-test (src/models/tree.js, lines 70-238: the variant that   *)
(* has waitFinish).  JavaScript runs the runner on one event loop, so the  *)
(* synchronous part of every method and every continuation after an        *)
(* `await` is one atomic step.                                             *)
(***************************************************************************)
EXTENDS Integers, Sequences, FiniteSets, TLC

(* ---- bounds of the model ---- *)
MaxTotal == 4
MaxWaits == 2
MaxPauses == 2
MaxResumes == 2
\* in the find workload only the first MaxFindSettle handlers are followed
\* to their settling; the others stay in flight
MaxFindSettle == 2
\* largest document count of a test range, and longest TEST_RANGES list
MaxRange == 4
MaxTests == 3

(* ---- constants of the harness, src/index.js ---- *)
\* findInParallel, line 252: count given to Parallel.create
FindParallelCount == 1000
\* findInParallel, line 253: concurrency given to Parallel.create
FindParallelConcurrency == 1000
\* InitTest, line 70: Performance(findInParallel, 10000)
FindParallelReq == 10000

Totals == 1..MaxTotal
\* 0 stands for an omitted concurrency argument (falsy in JavaScript)
Limits == 0..(MaxTotal + 1)

VARIABLES
  created,        \* Parallel.create has returned
  count,          \* this._count
  concurrency,    \* this._concurrency
  offset,         \* this._offset
  paused,         \* this._paused
  processing,     \* this._processing
  finishHandler,  \* this._finishHandler: 0 = undefined, else index into promises
  calls,          \* handler invocations in invocation order (the index passed)
  running,        \* positions in calls whose handler has not completed yet
  failed,         \* console.log of line 208: [unit, logged]
  promises,       \* promises returned by waitFinish
  pausePromises,  \* promises returned by pause
  resumeCalls,    \* number of resume calls made
  resumeRet,      \* return value of the last resume call
  limit,          \* history: concurrency as fixed by the constructor
  fires,          \* history: number of invocations of the finish handler
  pauseActive,    \* history: pause was called with units in flight, no resume since
  resumed,        \* history: resume was called after a pause call
  reqLimit,       \* history: the concurrency argument given to create
  createError,    \* history: create reported an error to its caller
  tests,          \* harness: the TEST_RANGES list (index.js line 18)
  iter,           \* harness: the values of the last iteration of InitTest's loop
  workload,       \* harness: which workload of index.js built the runner
  perfReq         \* harness: the req argument of Performance for that workload

vars == <<created, count, concurrency, offset, paused, processing,
          finishHandler, calls, running, failed, promises, pausePromises,
          resumeCalls, resumeRet, limit, fires, pauseActive, resumed,
          reqLimit, createError, tests, iter, workload, perfReq>>

\* the variables only the harness of index.js writes
harness == <<workload, perfReq, tests, iter>>

Min(a, b) == IF a < b THEN a ELSE b

(* ---- pure pieces of the code ---- *)

\* constructor, line 103: options.concurrency || options.count
DefaultConcurrency(cnt, conc) == IF conc = 0 THEN cnt ELSE conc

ClampConcurrency_None(cnt, conc) == conc

\* constructor, lines 110-112: clamp the concurrency to the count
ClampConcurrency(cnt, conc) == IF cnt < conc THEN cnt ELSE conc

NextOffset_Skip(o) == o + 2

\* _consume, line 203: this._offset++
NextOffset(o) == o + 1

\* `this.pause` in the condition of line 144 is the method itself: truthy
PauseMethodTruthy == TRUE

PauseEarlyReturn_Busy(p) == p > 0

\* pause, line 144: this._processing === 0 || this.pause
PauseEarlyReturn(p) == p = 0 \/ PauseMethodTruthy

ResumeRejected_Never(p) == p < 0

ResumeRejected_MoreThanOne(p) == p > 1

\* resume, line 167: this._processing > 0
ResumeRejected(p) == p > 0

\* resume, line 173: Math.min(this._concurrency, this._count - this._concurrency)
ResumeConcurrency(conc, cnt) == Min(conc, cnt - conc)

WaitFinishDone_Always(o, cnt) == o <= cnt

\* waitFinish, line 187: this._offset === this._count
WaitFinishDone(o, cnt) == o = cnt

RegisterListener_KeepFirst(old, new) == IF old = 0 THEN new ELSE old

\* waitFinish, line 192: this._finishHandler = res
RegisterListener(old, new) == new

IsFinish_AtLeast(o, cnt) == o >= cnt

\* _consume, line 213: this._offset === this._count
IsFinish(o, cnt) == o = cnt

ReclaimGuard_NoInFlight(pa, o, p, cnt) == ~pa /\ o < cnt

ReclaimGuard_OffByOne(pa, o, p, cnt) == ~pa /\ o + p + 1 < cnt

ReclaimGuard_Twice(pa, o, p, cnt) == ~pa /\ o + p + p < cnt

ReclaimGuard_AtMost(pa, o, p, cnt) == ~pa /\ o + p <= cnt

\* _consume, line 218: !this._paused && this._offset + this._processing < this._count
ReclaimGuard(pa, o, p, cnt) == ~pa /\ o + p < cnt

(* ---- the counters _consume touches, as one record ---- *)
Core == [offset |-> offset, processing |-> processing,
         calls |-> calls, running |-> running]

\* _consume up to its await, lines 202-206: count the unit, claim the next
\* offset and invoke the handler with it
ConsumeSync(s) ==
  [offset     |-> NextOffset(s.offset),
   processing |-> s.processing + 1,
   calls      |-> Append(s.calls, NextOffset(s.offset)),
   running    |-> s.running \cup {Len(s.calls) + 1}]

\* for (let i = 0; i < n; i++) this._consume()   (lines 132-134, 175-177):
\* ConsumeSync applied n times in a row.  The n applications are evaluated as
\* the first n \div 2 and then the rest; comparing `half` with itself only
\* makes the evaluation of the first half precede that of the rest, which
\* keeps it shallow for the 1000 units of findInParallel.
RECURSIVE ConsumeLoop(_, _)
ConsumeLoop(s, n) ==
  IF n <= 0 THEN s
  ELSE IF n = 1 THEN ConsumeSync(s)
  ELSE LET half == ConsumeLoop(s, n \div 2)
       IN IF half = half THEN ConsumeLoop(half, n - (n \div 2)) ELSE half

SetCore(s) ==
  /\ offset' = s.offset
  /\ processing' = s.processing
  /\ calls' = s.calls
  /\ running' = s.running

Visits(i) == Cardinality({j \in 1..Len(calls) : calls[j] = i})

Init ==
  /\ created = FALSE
  /\ count = 0
  /\ concurrency = 0
  /\ offset = 0
  /\ paused = FALSE
  /\ processing = 0
  /\ finishHandler = 0
  /\ calls = <<>>
  /\ running = {}
  /\ failed = {}
  /\ promises = <<>>
  /\ pausePromises = <<>>
  /\ resumeCalls = 0
  /\ resumeRet = "none"
  /\ limit = 0
  /\ fires = 0
  /\ pauseActive = FALSE
  /\ resumed = FALSE
  /\ reqLimit = 0
  /\ createError = FALSE
  /\ tests = <<>>
  /\ iter = [pos |-> 0, idx |-> 0, total |-> 0, start |-> 0]
  /\ workload = "none"
  /\ perfReq = 0

\* create and the constructor, lines 89-113: no statement checks count or
\* concurrency and none throws
ConstructorThrows(total, lim) == FALSE

\* Parallel.create(handler, total, lim): constructor, then start()
Create(total, lim) ==
  /\ ~created
  /\ created' = TRUE
  /\ count' = total
  /\ LET conc == ClampConcurrency(total, DefaultConcurrency(total, lim))
     IN /\ concurrency' = conc
        /\ limit' = conc
        /\ SetCore(ConsumeLoop([offset |-> 0, processing |-> 0,
                                calls |-> <<>>, running |-> {}], conc))
  /\ paused' = FALSE
  /\ reqLimit' = lim
  /\ createError' = ConstructorThrows(total, lim)
  /\ UNCHANGED <<finishHandler, failed, promises, pausePromises, resumeCalls,
                 resumeRet, fires, pauseActive, resumed, harness>>

SettleProcessing_FailFast(p, ok) == IF ok THEN p - 1 ELSE p

\* _consume, line 211: this._processing--, reached on both outcomes because
\* the try/catch of lines 205-209 swallows the failure
SettleProcessing(p, ok) == p - 1

\* _consume from the settling of its handler up to line 211
AfterAwait(j, ok) ==
  [offset     |-> offset,
   processing |-> SettleProcessing(processing, ok),
   calls      |-> calls,
   running    |-> running \ {j}]

\* _consume, lines 213-221: finish, claim the next offset, or stop
Continue(s) ==
  IF IsFinish(s.offset, count)
  THEN s
  ELSE IF ReclaimGuard(paused, s.offset, s.processing, count)
       THEN ConsumeSync(s)
       ELSE s

\* The handler invocation at position j of calls settles (ok: resolved,
\* ~ok: rejected or thrown); _consume continues after its await, lines 207-221.
Complete(j, ok) ==
  /\ created
  /\ j \in running
  /\ failed' = IF ok THEN failed
               ELSE failed \cup {[unit |-> calls[j], logged |-> offset]}
  /\ LET s == AfterAwait(j, ok)
     IN /\ SetCore(Continue(s))
        /\ IF IsFinish(s.offset, count) /\ finishHandler # 0
           THEN /\ promises' = [promises EXCEPT ![finishHandler].resolved = TRUE]
                /\ fires' = fires + 1
           ELSE UNCHANGED <<promises, fires>>
  /\ UNCHANGED <<created, count, concurrency, paused, finishHandler,
                 pausePromises, resumeCalls, resumeRet, limit, pauseActive,
                 resumed, reqLimit, createError, harness>>

\* waitFinish(), lines 186-194
WaitFinish ==
  /\ created
  /\ Len(promises) < MaxWaits
  /\ LET atEnd == offset = count /\ processing = 0
     IN IF WaitFinishDone(offset, count)
        THEN /\ promises' = Append(promises,
                   [resolved |-> TRUE, immediate |-> TRUE, finished |-> atEnd])
             /\ UNCHANGED finishHandler
        ELSE /\ promises' = Append(promises,
                   [resolved |-> FALSE, immediate |-> FALSE, finished |-> atEnd])
             /\ finishHandler' = RegisterListener(finishHandler, Len(promises) + 1)
  /\ UNCHANGED <<created, count, concurrency, offset, paused, processing,
                 calls, running, failed, pausePromises, resumeCalls, resumeRet,
                 limit, fires, pauseActive, resumed, reqLimit, createError, harness>>

\* pause(), lines 143-158.  The promise of lines 151-157 polls _processing
\* every 500 ms and resolves once it reads 0.
Pause ==
  /\ created
  /\ Len(pausePromises) < MaxPauses
  /\ IF PauseEarlyReturn(processing)
     THEN /\ pausePromises' = Append(pausePromises,
                 [busy |-> processing > 0, resolved |-> TRUE])
          /\ UNCHANGED paused
     ELSE /\ paused' = TRUE
          /\ pausePromises' = Append(pausePromises,
                 [busy |-> processing > 0, resolved |-> FALSE])
  /\ pauseActive' = (pauseActive \/ processing > 0)
  /\ UNCHANGED <<created, count, concurrency, offset, processing,
                 finishHandler, calls, running, failed, promises, resumeCalls,
                 resumeRet, limit, fires, resumed, reqLimit, createError, harness>>

\* pause, lines 151-157: the polling loop of the promise pause returns once it
\* has set _paused; it resolves that promise when it reads _processing == 0.
\* pause never gets as far as creating this promise (NoPendingPause), so the
\* step is not part of Next.
PausePoll(k) ==
  /\ k \in 1..Len(pausePromises)
  /\ ~pausePromises[k].resolved
  /\ processing = 0
  /\ pausePromises' = [pausePromises EXCEPT ![k].resolved = TRUE]
  /\ UNCHANGED <<created, count, concurrency, offset, paused, processing,
                 finishHandler, calls, running, failed, promises, resumeCalls,
                 resumeRet, limit, fires, pauseActive, resumed, reqLimit, createError,
                 harness>>

\* resume(), lines 166-178
Resume ==
  /\ created
  /\ resumeCalls < MaxResumes
  /\ resumeCalls' = resumeCalls + 1
  /\ pauseActive' = FALSE
  /\ resumed' = (resumed \/ Len(pausePromises) > 0)
  /\ IF ResumeRejected(processing)
     THEN /\ resumeRet' = "false"
          /\ UNCHANGED <<paused, concurrency, offset, processing, calls, running>>
     ELSE /\ resumeRet' = "undefined"
          /\ paused' = FALSE
          /\ LET conc == ResumeConcurrency(concurrency, count)
             IN /\ concurrency' = conc
                /\ SetCore(ConsumeLoop(Core, conc))
  /\ UNCHANGED <<created, count, finishHandler, failed, promises,
                 pausePromises, limit, fires, reqLimit, createError, harness>>

CreateAny == \E total \in Totals, lim \in Limits : Create(total, lim)
CompleteAny == \E j \in 1..Len(calls), ok \in BOOLEAN : Complete(j, ok)

Next == CreateAny \/ CompleteAny \/ WaitFinish \/ Pause \/ Resume

Spec == Init /\ [][Next]_vars

\* the runner without pause and resume calls
NextNoPR == CreateAny \/ CompleteAny \/ WaitFinish

SpecNoPR == Init /\ [][NextNoPR]_vars

(* ---- the second Parallel variant, src/models/tree.js lines 239-379 ---- *)
(* It has no waitFinish, no clamp in its constructor and no try/catch      *)
(* around the handler; start and resume set the offset before they launch. *)

\* _consume(inc) up to its await, lines 352-359
ConsumeSync2(s, inc) ==
  LET o == IF inc THEN NextOffset(s.offset) ELSE s.offset
  IN [offset     |-> o,
      processing |-> s.processing + 1,
      calls      |-> Append(s.calls, o),
      running    |-> s.running \cup {Len(s.calls) + 1}]

\* for (let i = 0; i < n; i++) this._consume(false)   (lines 297-299, 341-343)
RECURSIVE ConsumeLoop2(_, _)
ConsumeLoop2(s, n) ==
  IF n <= 0 THEN s ELSE ConsumeLoop2(ConsumeSync2(s, FALSE), n - 1)

\* _consume, line 362: this._offset < this._count && !this._paused
ReclaimGuard2(pa, o, cnt) == o < cnt /\ ~pa

\* Parallel.create of the second variant, lines 256-300: the constructor
\* (no clamp), then start(), which first sets _offset = _concurrency
Create2(total, lim) ==
  /\ ~created
  /\ created' = TRUE
  /\ count' = total
  /\ paused' = FALSE
  /\ reqLimit' = lim
  /\ createError' = ConstructorThrows(total, lim)
  /\ LET conc == DefaultConcurrency(total, lim)
     IN /\ concurrency' = conc
        /\ limit' = conc
        /\ SetCore(ConsumeLoop2([offset |-> conc, processing |-> 0,
                                 calls |-> <<>>, running |-> {}], conc))
  /\ UNCHANGED <<finishHandler, failed, promises, pausePromises, resumeCalls,
                 resumeRet, fires, pauseActive, resumed, harness>>

\* The handler invocation at position j settles; _consume of the second
\* variant continues after its await, lines 359-364.  A failure rejects the
\* async function at line 359: lines 360-364 do not run.
Complete2(j, ok) ==
  /\ created
  /\ j \in running
  /\ IF ok
     THEN LET s == [offset |-> offset, processing |-> processing - 1,
                    calls |-> calls, running |-> running \ {j}]
          IN IF ReclaimGuard2(paused, s.offset, count)
             THEN SetCore(ConsumeSync2(s, TRUE))
             ELSE SetCore(s)
     ELSE /\ running' = running \ {j}
          /\ UNCHANGED <<offset, processing, calls>>
  /\ UNCHANGED <<created, count, concurrency, paused, finishHandler, failed,
                 promises, pausePromises, resumeCalls, resumeRet, limit, fires,
                 pauseActive, resumed, reqLimit, createError, harness>>

\* resume() of the second variant, lines 331-344
Resume2 ==
  /\ created
  /\ resumeCalls < MaxResumes
  /\ resumeCalls' = resumeCalls + 1
  /\ IF ResumeRejected(processing)
     THEN /\ resumeRet' = "false"
          /\ UNCHANGED <<paused, concurrency, offset, processing, calls, running>>
     ELSE /\ resumeRet' = "undefined"
          /\ paused' = FALSE
          /\ LET conc == ResumeConcurrency(concurrency, count)
             IN /\ concurrency' = conc
                /\ SetCore(ConsumeLoop2([offset |-> offset + conc,
                                         processing |-> processing,
                                         calls |-> calls, running |-> running],
                                        conc))
  /\ UNCHANGED <<created, count, finishHandler, failed, promises,
                 pausePromises, limit, fires, pauseActive, resumed, reqLimit,
                 createError, harness>>

Create2Any == \E total \in Totals, lim \in Limits : Create2(total, lim)
Complete2Any == \E j \in 1..Len(calls), ok \in BOOLEAN : Complete2(j, ok)

Next2 == Create2Any \/ Complete2Any \/ Resume2

Variant2Spec == Init /\ [][Next2]_vars

(* ---- create with arguments outside the documented domain ---- *)
ArgTotals == (0 - 1)..MaxTotal
ArgLimits == (0 - 1)..(MaxTotal + 1)

CreateAnyArgs == \E total \in ArgTotals, lim \in ArgLimits : Create(total, lim)

NextArgs == CreateAnyArgs \/ CompleteAny \/ WaitFinish

ArgsSpec == Init /\ [][NextArgs]_vars

(* ---- the harness of src/index.js ---- *)

\* Parallel.create(handler, total, lim) followed in the same turn by
\* waitFinish() (insertMany lines 137-153, findInParallel lines 244-256),
\* under Performance(fn, req) (lines 267-284)
RunWorkload(total, lim, name, req) ==
  /\ ~created
  /\ workload = "none"
  /\ created' = TRUE
  /\ count' = total
  /\ reqLimit' = lim
  /\ paused' = FALSE
  /\ workload' = name
  /\ perfReq' = req
  /\ createError' = ConstructorThrows(total, lim)
  /\ LET conc == ClampConcurrency(total, DefaultConcurrency(total, lim))
         s    == ConsumeLoop([offset |-> 0, processing |-> 0,
                              calls |-> <<>>, running |-> {}], conc)
         done == WaitFinishDone(s.offset, total)
     IN /\ concurrency' = conc
        /\ limit' = conc
        /\ SetCore(s)
        /\ promises' = <<[resolved |-> done, immediate |-> done,
                          finished |-> (s.offset = total /\ s.processing = 0)]>>
        /\ finishHandler' = IF done THEN 0 ELSE RegisterListener(0, 1)
  /\ UNCHANGED <<failed, pausePromises, resumeCalls, resumeRet, fires,
                 pauseActive, resumed, tests, iter>>

\* InitTest line 46: Performance(async () => await insertMany(count * idx, count), count)
InsertMany(cnt, conc) ==
  /\ cnt \in Totals
  /\ RunWorkload(cnt, conc, "insert", cnt)

\* InitTest line 70: Performance(findInParallel, 10000)
FindInParallel ==
  /\ FindParallelCount > 0
  /\ RunWorkload(FindParallelCount, FindParallelConcurrency, "find",
                 FindParallelReq)

InsertManyAny == \E cnt \in Totals, conc \in Limits : InsertMany(cnt, conc)

\* a handler of the workload's runner settles
HarnessSettle ==
  \E j \in 1..Len(calls), ok \in BOOLEAN :
    /\ workload = "find" => j <= MaxFindSettle
    /\ Complete(j, ok)

NextHarness == InsertManyAny \/ FindInParallel \/ HarnessSettle

HarnessSpec == Init /\ [][NextHarness]_vars

(* ---- InitTest's loop over the test ranges, src/index.js ---- *)

\* lists of distinct positive counts, as TEST_RANGES gives them (line 18)
TestLists ==
  {ts \in UNION {[1..n -> 1..MaxRange] : n \in 1..MaxTests} :
     \A i, j \in 1..Len(ts) : i # j => ts[i] # ts[j]}

\* tests.indexOf(count), line 117: 0-based position of the first match, or -1
IndexOf(x, ts) ==
  IF \E i \in 1..Len(ts) : ts[i] = x
  THEN (CHOOSE i \in 1..Len(ts) :
          ts[i] = x /\ \A k \in 1..(i - 1) : ts[k] # x) - 1
  ELSE 0 - 1

\* getTotal, lines 120-125: the while loop and the returned object
RECURSIVE GetTotalLoop(_, _, _)
GetTotalLoop(idx, total, ts) ==
  IF idx >= 0
  THEN GetTotalLoop(idx - 1, total + ts[idx + 1], ts)
  ELSE [idx |-> idx, total |-> total]

\* getTotal(count, tests), lines 116-126
getTotal(cnt, ts) == GetTotalLoop(IndexOf(cnt, ts), 0, ts)

\* line 18: const tests = process.env.TEST_RANGES.split(',').map(parseInt)
LoadTests(ts) ==
  /\ tests = <<>>
  /\ tests' = ts
  /\ UNCHANGED <<created, count, concurrency, offset, paused, processing,
                 finishHandler, calls, running, failed, promises, pausePromises,
                 resumeCalls, resumeRet, limit, fires, pauseActive, resumed,
                 reqLimit, createError, iter, workload, perfReq>>

\* one iteration of `for (const count of tests)`, lines 38-46: getTotal and
\* the start offset count * idx handed to insertMany
LoopIteration ==
  /\ iter.pos < Len(tests)
  /\ LET cnt == tests[iter.pos + 1]
         r   == getTotal(cnt, tests)
     IN iter' = [pos |-> iter.pos + 1, idx |-> r.idx, total |-> r.total,
                 start |-> cnt * r.idx]
  /\ UNCHANGED <<created, count, concurrency, offset, paused, processing,
                 finishHandler, calls, running, failed, promises, pausePromises,
                 resumeCalls, resumeRet, limit, fires, pauseActive, resumed,
                 reqLimit, createError, tests, workload, perfReq>>

LoadTestsAny == \E ts \in TestLists : LoadTests(ts)

NextTests == LoadTestsAny \/ LoopIteration

TestsSpec == Init /\ [][NextTests]_vars

\* every handler invocation eventually settles
LiveSpec ==
  /\ Init
  /\ [][NextNoPR]_vars
  /\ \A j \in Totals : WF_vars(\E ok \in BOOLEAN : Complete(j, ok))

\* pause always takes its early return: no promise of pause is ever pending
NoPendingPause == \A k \in 1..Len(pausePromises) : pausePromises[k].resolved

Resolved(k) == k <= Len(promises) /\ promises[k].resolved

(* ---- C1 ---- *)
\* C1: without pause/resume, once a waitFinish promise has resolved the
\* handler has been invoked exactly once with each index of 1..total and
\* with no index outside that range.
C1_ExactlyOnce ==
  \A k \in 1..Len(promises) :
    promises[k].resolved =>
      /\ \A i \in 1..count : Visits(i) = 1
      /\ \A j \in 1..Len(calls) : calls[j] \in 1..count

C1_Witness ==
  /\ Resolved(1)
  /\ ~promises[1].immediate
  /\ limit >= 2
  /\ limit < count

(* ---- C2 ---- *)
\* C2: waitFinish returns an already-resolved promise if and only if, at call
\* time, nextIndex == total and inFlight == 0.
C2_Orig ==
  \A k \in 1..Len(promises) : promises[k].immediate <=> promises[k].finished

(* ---- C3 ---- *)
\* C3: a finishing unit invokes the completion listener only in a state
\* where nextIndex == total and inFlight == 0.
C3_ListenerAtEnd ==
  [][fires' > fires => (offset' = count /\ processing' = 0)]_vars

C3_Witness ==
  /\ fires = 1
  /\ limit >= 2
  /\ Len(pausePromises) > 0

(* ---- C4 ---- *)
\* C4: in every reachable state 0 <= inFlight <= limit, limit being the
\* concurrency fixed at construction after clamping.
C4_InFlightBound == 0 <= processing /\ processing <= limit

C4_Witness ==
  /\ created
  /\ limit >= 2
  /\ processing = limit
  /\ Len(calls) > limit

(* ---- C5 ---- *)
\* C5: in every reachable state nextIndex <= total and the handler has never
\* been invoked with an index outside 1..total.
C5_Orig ==
  /\ offset <= count
  /\ \A j \in 1..Len(calls) : calls[j] \in 1..count

C7_Orig ==
  [][pauseActive' => (paused' /\ (pauseActive => offset' = offset))]_vars

(* ---- C8 ---- *)
\* C8: the promise returned by a pause call made with inFlight > 0 becomes
\* resolved only in a state where inFlight == 0.
C8_Orig ==
  [][\A k \in 1..Len(pausePromises') :
       ( /\ pausePromises'[k].busy
         /\ pausePromises'[k].resolved
         /\ ~(k <= Len(pausePromises) /\ pausePromises[k].resolved) )
       => processing' = 0]_vars

(* ---- C9 ---- *)
\* C9: resume called with inFlight == 0 clears paused and launches exactly
\* min(limit, total - nextIndex) new slots, none when nextIndex == total.
C9_Orig ==
  [][(resumeCalls' = resumeCalls + 1 /\ processing = 0) =>
       LET n == Min(limit, count - offset)
       IN /\ ~paused'
          /\ processing' = n
          /\ offset' = offset + n
          /\ Len(calls') = Len(calls) + n]_vars

(* ---- C10 ---- *)
\* C10: after a pause call followed by a resume call no index is claimed
\* twice, and once the run has drained the handler has been invoked exactly
\* total times, once per index.
C10_Orig ==
  resumed =>
    /\ \A j \in 1..Len(calls) : Visits(calls[j]) = 1
    /\ processing = 0 =>
         (Len(calls) = count /\ \A i \in 1..count : Visits(i) = 1)

(* ---- C11 ---- *)
\* C11: resume called with inFlight > 0 returns false and leaves nextIndex,
\* inFlight, paused and the concurrency limit unchanged; no unit is started.
C11_ResumeRejected ==
  [][(resumeCalls' = resumeCalls + 1 /\ processing > 0) =>
       /\ resumeRet' = "false"
       /\ UNCHANGED <<offset, processing, paused, concurrency, calls, running>>]_vars

C11_Witness ==
  /\ resumeRet = "false"
  /\ processing > 0
  /\ offset < count

C13_SingleFire == fires <= 1

C13_Witness ==
  /\ fires = 1
  /\ processing = 0
  /\ limit >= 2
  /\ resumeCalls > 0

(* ---- C14 ---- *)
\* C14: right after create returns, before any handler settles, nextIndex ==
\* inFlight == min(limit, total), the handler has been invoked with exactly
\* 1..min(limit, total), and an omitted or 0 limit means total.
C14_Activation ==
  (created /\ Cardinality(running) = Len(calls)) =>
    LET eff == IF reqLimit = 0 THEN count ELSE reqLimit
        m   == Min(eff, count)
    IN /\ offset = m
       /\ processing = m
       /\ limit = m
       /\ calls = [i \in 1..m |-> i]

C14_Witness ==
  /\ created
  /\ Cardinality(running) = Len(calls)
  /\ reqLimit > count
  /\ count >= 2

(* ---- C15 ---- *)
\* C15: pause called with inFlight == 0 returns an already-resolved promise
\* and leaves nextIndex, inFlight and paused unchanged.
C15_PauseIdle ==
  [][(Len(pausePromises') = Len(pausePromises) + 1 /\ processing = 0) =>
       /\ pausePromises'[Len(pausePromises')].resolved
       /\ UNCHANGED <<offset, processing, paused>>]_vars

C15_Witness ==
  /\ Len(pausePromises) > 0
  /\ ~pausePromises[Len(pausePromises)].busy
  /\ offset = count

(* ---- C16 ---- *)
\* C16: the promise of insertMany and of findInParallel (resolved when the
\* awaited waitFinish promise is) resolves only after every handler
\* invocation of the runner has settled.
C16_Orig == (workload # "none" /\ Resolved(1)) => running = {}

(* ---- C17 ---- *)
\* C17: the request count given to Performance for the find-parallel test
\* equals the number of find operations the runner dispatches.
C17_Orig == workload = "find" => perfReq = Len(calls)

C19_Sequential ==
  [][/\ offset' >= offset
     /\ \A i \in 1..Len(calls') : calls'[i] = i]_vars

C19_Witness ==
  /\ Len(calls) >= 3
  /\ 1 \in running
  /\ 2 \notin running

(* ---- C20 ---- *)
\* C20: a failure of the invocation for index k is logged against index k.
C20_Orig == \A f \in failed : f.logged = f.unit

(* ---- C21 ---- *)
\* C21: the runner keeps one completion listener: a waitFinish call that
\* returns a pending promise becomes the listener, a pending promise that is
\* not the listener stays pending for ever, and completion resolves the
\* promise of the latest such call.
C21_SingleListener ==
  [][/\ (Len(promises') > Len(promises) /\ ~promises'[Len(promises')].immediate)
          => finishHandler' = Len(promises')
     /\ \A k \in 1..Len(promises) :
          (~promises[k].resolved /\ finishHandler # k) => ~promises'[k].resolved
     /\ fires' > fires => promises'[finishHandler].resolved]_vars

C21_Witness ==
  /\ Len(promises) = 2
  /\ ~promises[1].immediate
  /\ ~promises[1].resolved
  /\ ~promises[2].immediate
  /\ promises[2].resolved
  /\ processing = 0

(* ---- C22 ---- *)
\* C22: constructing a runner with a non-positive total or a negative limit
\* reports an error to the caller and dispatches no unit of work.
C22_Orig ==
  (created /\ (count <= 0 \/ reqLimit < 0)) =>
    (createError /\ Len(calls) = 0)

(* ---- C23 ---- *)
\* C23: in the second variant no two handler invocations receive the same
\* index, every index received lies in 1..total, the units launched by start
\* receive 1..limit, and once the run has drained with nextIndex >= total
\* every index of 1..total has been dispatched exactly once.
C23_Orig ==
  created =>
    /\ \A i, j \in 1..Len(calls) : i # j => calls[i] # calls[j]
    /\ \A j \in 1..Len(calls) : calls[j] \in 1..count
    /\ \A j \in 1..Min(limit, Len(calls)) : calls[j] = j
    /\ (running = {} /\ failed = {} /\ offset >= count)
         => \A i \in 1..count : Visits(i) = 1

RECURSIVE SumFirst(_, _)
SumFirst(ts, n) == IF n <= 0 THEN 0 ELSE SumFirst(ts, n - 1) + ts[n]

\* C25: for the count at position p of tests (0-based), getTotal returns
\* idx == p with 0 <= idx < length of tests and total == tests[0] + ... +
\* tests[p], so that the start offset count * idx is non-negative.
C25_Orig ==
  iter.pos > 0 =>
    /\ iter.idx = iter.pos - 1
    /\ 0 <= iter.idx /\ iter.idx < Len(tests)
    /\ iter.total = SumFirst(tests, iter.pos)
    /\ iter.start >= 0
====
